---- MODULE Spec2Model ----
(***************************************************************************)
(* Model of crates/interfaces/src/p2p/full_block.rs: the two futures       *)
(* FetchFullBlockFuture (one block by hash) and FetchFullBlockRangeFuture  *)
(* (a falling range of blocks by hash and count), each racing a headers    *)
(* and a bodies sub-request against an untrusted client.                   *)
(*                                                                         *)
(* One loop iteration of `poll` (request.poll, the match arm, take_block)  *)
(* is one action; `task` is the position of the task (inside poll, or      *)
(* suspended).  A sub-request is an Option of a future that is pending or  *)
(* ready; the payload of a ready future is chosen when poll takes it.      *)
(***************************************************************************)
EXTENDS Integers, Sequences, FiniteSets, TLC

\* ------------------------------------------------------------------ bounds
MaxNumber == 2      \* block numbers are 0..MaxNumber
MaxCount == 2       \* the requested count of a range is 1..MaxCount
MaxPeer == 2        \* responder identities are 1..MaxPeer
MaxBody == 2        \* distinct block bodies are 1..MaxBody

\* ------------------------------------------------------------ option type
None == <<>>
Some(x) == <<x>>
IsSome(o) == Len(o) = 1
IsNone(o) == Len(o) = 0
Unwrap(o) == o[1]

\* ------------------------------------------------------- headers, hashes
\* Header::seal_slow / hash_slow: the hash is computed from the header's
\* content; distinct contents give distinct hashes.
HashOf(h) == 1 + h.extra + 2 * (h.number + (MaxNumber + 1) * h.parent_hash)

\* The chain the tests build: block 0 has parent hash zero, block n + 1
\* links to the hash of block n.
RECURSIVE ChainHeader(_)
ChainHeader(n) ==
    IF n = 0 THEN [number |-> 0, parent_hash |-> 0, extra |-> 0]
    ELSE [number |-> n, parent_hash |-> HashOf(ChainHeader(n - 1)), extra |-> 0]

\* A header that is not on the chain but carries a chain block's number: the
\* lowest and the highest one, so that a forged header can tie with, exceed
\* or fall below the number of any requested block.
ForgedHeader(n) == [number |-> n, parent_hash |-> 0, extra |-> 1]

Numbers == 0..MaxNumber
Peers == 1..MaxPeer
Bodies == 1..MaxBody
ChainHeaders == {ChainHeader(n) : n \in Numbers}
HeaderUniverse == ChainHeaders \cup {ForgedHeader(n) : n \in {0, MaxNumber}}
ChainHashes == {HashOf(h) : h \in ChainHeaders}

SeqsUpTo(S, n) == UNION {[1..k -> S] : k \in 0..n}

\* PeerRequestResult<T>: Err, or Ok(WithPeerId(peer, data)).
ErrResponse == [ok |-> FALSE, peer |-> 0, data |-> <<>>]
OkResponse(p, d) == [ok |-> TRUE, peer |-> p, data |-> d]

\* Every response a client may give to a headers range request, a bodies
\* request, a single header request and a single body request.
HeadersResponses(n) ==
    {ErrResponse} \cup {OkResponse(p, d) : p \in Peers, d \in SeqsUpTo(HeaderUniverse, n + 1)}
BodiesResponses(n) ==
    {ErrResponse} \cup {OkResponse(p, d) : p \in Peers, d \in SeqsUpTo(Bodies, n + 1)}
HeaderResponses ==
    {ErrResponse} \cup {OkResponse(p, d) : p \in Peers, d \in SeqsUpTo(HeaderUniverse, 1)}
BodyResponses ==
    {ErrResponse} \cup {OkResponse(p, d) : p \in Peers, d \in SeqsUpTo(Bodies, 1)}

\* ------------------------------------------------------------------ state
VARIABLES
    hash,             \* this.hash of either future
    count,            \* FetchFullBlockRangeFuture.count (0 for a single fetch)
    request_header,   \* FullBlockRequest.header
    request_body,     \* FullBlockRequest.body
    header,           \* FetchFullBlockFuture.header
    body,             \* FetchFullBlockFuture.body
    request_headers,  \* FullBlockRangeRequest.headers
    request_bodies,   \* FullBlockRangeRequest.bodies
    headers,          \* FetchFullBlockRangeFuture.headers
    bodies,           \* FetchFullBlockRangeFuture.bodies
    task,             \* "created" (never polled), "polling", "suspended", "done"
                      \* or "dropped"
    output,           \* Some(value of Poll::Ready) once the future resolved
    reported,         \* peers passed to report_bad_message by the last step
    lastResponse,     \* the response taken by the last step, if it took one
    test_bodies       \* TestFullBlockClient.bodies, by block number

vars == <<hash, count, request_header, request_body, header, body,
          request_headers, request_bodies, headers, bodies,
          task, output, reported, lastResponse, test_bodies>>

singleVars == <<request_header, request_body, header, body>>
rangeVars == <<request_headers, request_bodies, headers, bodies>>

NoResponse == [kind |-> "none", resp |-> ErrResponse]

\* --------------------------------------------------- client sub-requests
get_header(h) == [ready |-> FALSE, hash |-> h]
get_block_bodyZero(h) == [ready |-> FALSE, hash |-> 0]
get_block_body(h) == [ready |-> FALSE, hash |-> h]
get_headersOne(start, limit) ==
    [ready |-> FALSE, start |-> start, limit |-> 1, direction |-> "Falling"]
get_headers(start, limit) ==
    [ready |-> FALSE, start |-> start, limit |-> limit, direction |-> "Falling"]
get_block_bodies(hashes) == [ready |-> FALSE, hashes |-> hashes]

IsReady(req) == IsSome(req) /\ Unwrap(req).ready
IsPending(req) == IsSome(req) /\ ~Unwrap(req).ready
MarkReady(req) == Some([Unwrap(req) EXCEPT !.ready = TRUE])

\* ------------------------------------------------- scheduling, both futures
\* The executor polls the suspended future (a wake-up, possibly spurious).
Wake ==
    /\ task \in {"created", "suspended"}
    /\ task' = "polling"
    /\ reported' = <<>>
    /\ lastResponse' = NoResponse
    /\ UNCHANGED <<hash, count, test_bodies, singleVars, rangeVars, output>>

\* ------------------------------------------------ FetchFullBlockRangeFuture
\* FullBlockClient::get_full_block_range: the bodies request of the new future.
bodies_request(h, n) == IF n = 1 THEN None ELSE Some(get_block_bodies(<<h>>))

get_full_block_range ==
    /\ hash \in ChainHashes
    /\ count \in 1..MaxCount
    /\ request_headers = Some(get_headers(hash, count))
    /\ request_bodies = bodies_request(hash, count)
    /\ headers = None
    /\ bodies = None
    /\ request_header = None
    /\ request_body = None
    /\ header = None
    /\ body = None
    /\ task = "created"
    /\ output = None
    /\ reported = <<>>
    /\ lastResponse = NoResponse

\* The bodies the client of the tests would hand out.
ChainBody(n) == (n % MaxBody) + 1
DefaultBodies == [n \in Numbers |-> ChainBody(n)]

RangeInit == get_full_block_range /\ test_bodies = DefaultBodies

HashesOfReversed(hs) == [i \in 1..Len(hs) |-> HashOf(hs[Len(hs) + 1 - i])]
HashesOf(hs) == [i \in 1..Len(hs) |-> HashOf(hs[i])]

range_block_hashesFirst(hs) ==
    IF IsNone(hs) THEN None ELSE Some(<<HashOf(Unwrap(hs)[1])>>)
range_block_hashes(hs) == IF IsNone(hs) THEN None ELSE Some(HashesOf(Unwrap(hs)))

Min(a, b) == IF a < b THEN a ELSE b

\* headers.iter().zip(bodies.iter()).map(SealedBlock::new)
ZipBlocksReversed(hs, bs) ==
    [i \in 1..Min(Len(hs), Len(bs)) |->
        [header |-> hs[i], body |-> bs[Min(Len(hs), Len(bs)) + 1 - i]]]
ZipBlocks(hs, bs) ==
    [i \in 1..Min(Len(hs), Len(bs)) |-> [header |-> hs[i], body |-> bs[i]]]

take_blocks(hs, bs) ==
    IF IsNone(hs) \/ IsNone(bs) THEN None ELSE Some(ZipBlocks(Unwrap(hs), Unwrap(bs)))

has_bodies_request_started(rb, bs) == IsNone(rb) /\ IsNone(bs)

\* headers.sort_unstable_by_key(|h| Reverse(h.number)): some permutation of
\* the response in non-increasing number order; the order of entries with
\* equal numbers is not specified.
IsDescendingUnsorted(s) == TRUE
IsDescending(s) == \A i, j \in 1..Len(s) : i < j => s[i].number >= s[j].number
SortedHeaders(s) ==
    {t \in {[i \in 1..Len(s) |-> s[f[i]]] : f \in Permutations(1..Len(s))} : IsDescending(t)}

\* "ensure the response is what we requested"
HeadersCountOkNonEmpty(hs, n) == Len(hs) # 0
HeadersCountOk(hs, n) == ~(Len(hs) = 0 \/ Len(hs) # n)
StartHashOkAny(sorted, h) == TRUE
StartHashOk(sorted, h) == HashOf(sorted[1]) = h
BodiesCountOkAny(bs, n) == TRUE
BodiesCountOk(bs, n) == Len(bs) = n

\* The end of a loop iteration of FetchFullBlockRangeFuture::poll: take_blocks
\* and, when it yields, Poll::Ready.
RangeFinish(hs, bs) ==
    LET res == take_blocks(hs, bs) IN
    IF IsSome(res)
    THEN /\ output' = res
         /\ headers' = None
         /\ bodies' = None
         /\ task' = "done"
    ELSE /\ output' = None
         /\ headers' = hs
         /\ bodies' = bs
         /\ task' = "polling"

\* The match arm for RangeResponseResult::Header(resp), up to the end of the
\* loop iteration; `sorted` is the response as sort_unstable_by_key leaves it.
RangeTakeHeaders(resp, sorted) ==
    LET accepted == /\ resp.ok
                    /\ HeadersCountOk(resp.data, count)
                    /\ StartHashOk(sorted, hash)
        headers1 == IF accepted THEN Some(sorted) ELSE headers
    IN  /\ request_bodies' =
              IF accepted /\ ~has_bodies_request_started(request_bodies, bodies)
              THEN Some(get_block_bodies(HashesOf(sorted)))
              ELSE request_bodies
        /\ request_headers' =
              IF IsNone(headers1) THEN Some(get_headers(hash, count)) ELSE None
        /\ reported' = IF resp.ok /\ ~accepted THEN <<resp.peer>> ELSE <<>>
        /\ RangeFinish(headers1, bodies)
        /\ lastResponse' = [kind |-> "headers", resp |-> resp]

\* One loop iteration in which FullBlockRangeRequest::poll yields the headers
\* result, which is one of `responses`.
RangePollHeaders(responses) ==
    /\ task = "polling"
    /\ IsReady(request_headers)
    /\ \E resp \in responses :
          IF resp.ok /\ HeadersCountOk(resp.data, count)
          THEN \E sorted \in SortedHeaders(resp.data) : RangeTakeHeaders(resp, sorted)
          ELSE RangeTakeHeaders(resp, resp.data)
    /\ UNCHANGED <<hash, count, test_bodies, singleVars>>

\* The match arm for RangeResponseResult::Body(resp), up to the end of the
\* loop iteration.
RangeTakeBodiesReportsError(resp) ==
    LET accepted == resp.ok /\ BodiesCountOk(resp.data, count)
        bodies1 == IF accepted THEN Some(resp.data) ELSE bodies
        hashes == range_block_hashes(headers)
    IN  /\ request_bodies' =
              IF IsNone(bodies1) /\ IsSome(hashes)
              THEN Some(get_block_bodies(Unwrap(hashes)))
              ELSE None
        /\ reported' = IF ~accepted THEN <<resp.peer>> ELSE <<>>
        /\ RangeFinish(headers, bodies1)
        /\ lastResponse' = [kind |-> "bodies", resp |-> resp]
RangeTakeBodies(resp) ==
    LET accepted == resp.ok /\ BodiesCountOk(resp.data, count)
        bodies1 == IF accepted THEN Some(resp.data) ELSE bodies
        hashes == range_block_hashes(headers)
    IN  /\ request_bodies' =
              IF IsNone(bodies1) /\ IsSome(hashes)
              THEN Some(get_block_bodies(Unwrap(hashes)))
              ELSE None
        /\ reported' = IF resp.ok /\ ~accepted THEN <<resp.peer>> ELSE <<>>
        /\ RangeFinish(headers, bodies1)
        /\ lastResponse' = [kind |-> "bodies", resp |-> resp]

\* One loop iteration in which FullBlockRangeRequest::poll yields the bodies
\* result (the headers future is absent or still pending).
RangePollBodies(responses) ==
    /\ task = "polling"
    /\ ~IsReady(request_headers)
    /\ IsReady(request_bodies)
    /\ \E resp \in responses : RangeTakeBodies(resp)
    /\ UNCHANGED <<hash, count, test_bodies, singleVars, request_headers>>

\* FullBlockRangeRequest::poll returns Poll::Pending: the task suspends.
RangePollPending ==
    /\ task = "polling"
    /\ ~IsReady(request_headers)
    /\ ~IsReady(request_bodies)
    /\ task' = "suspended"
    /\ reported' = <<>>
    /\ lastResponse' = NoResponse
    /\ UNCHANGED <<hash, count, test_bodies, singleVars, rangeVars, output>>

\* The client completes the in-flight headers future.
HeadersResponseArrives ==
    /\ IsPending(request_headers)
    /\ request_headers' = MarkReady(request_headers)
    /\ reported' = <<>>
    /\ lastResponse' = NoResponse
    /\ UNCHANGED <<hash, count, test_bodies, singleVars, request_bodies, headers, bodies, task, output>>

\* The client completes the in-flight bodies future.
BodiesResponseArrives ==
    /\ IsPending(request_bodies)
    /\ request_bodies' = MarkReady(request_bodies)
    /\ reported' = <<>>
    /\ lastResponse' = NoResponse
    /\ UNCHANGED <<hash, count, test_bodies, singleVars, request_headers, headers, bodies, task, output>>

RangeNext ==
    \/ Wake
    \/ RangePollHeaders(HeadersResponses(count))
    \/ RangePollBodies(BodiesResponses(count))
    \/ RangePollPending
    \/ HeadersResponseArrives
    \/ BodiesResponseArrives

RangeSpec == RangeInit /\ [][RangeNext]_vars

\* ----------------------------------------------------- FetchFullBlockFuture
\* FullBlockClient::get_full_block
get_full_block ==
    /\ hash \in ChainHashes
    /\ count = 0
    /\ request_header = Some(get_header(hash))
    /\ request_body = Some(get_block_body(hash))
    /\ header = None
    /\ body = None
    /\ request_headers = None
    /\ request_bodies = None
    /\ headers = None
    /\ bodies = None
    /\ task = "created"
    /\ output = None
    /\ reported = <<>>
    /\ lastResponse = NoResponse

SingleInit == get_full_block /\ test_bodies = DefaultBodies

\* SealedBlock::new(header, body)
SealedBlock(h, b) == [header |-> h, body |-> b]

take_blockHeaderOnly(h, b) ==
    IF IsNone(h) THEN None
    ELSE Some(SealedBlock(Unwrap(h), IF IsNone(b) THEN 0 ELSE Unwrap(b)))
take_block(h, b) ==
    IF IsNone(h) \/ IsNone(b) THEN None ELSE Some(SealedBlock(Unwrap(h), Unwrap(b)))

\* FetchFullBlockFuture::block_number
block_numberOrDefault(h) == IF IsNone(h) THEN Some(0) ELSE Some(Unwrap(h).number)
block_number(h) == IF IsNone(h) THEN None ELSE Some(Unwrap(h).number)

\* "if header.hash() != this.hash" is the negation of this test.
HeaderHashOkAny(h, target) == TRUE
HeaderHashOkInverted(h, target) == HashOf(h) # target
HeaderHashOk(h, target) == HashOf(h) = target

\* "this.body = maybe_body.into_data()"
into_dataDropped(resp) == None
into_data(resp) == resp.data

\* The end of a loop iteration of FetchFullBlockFuture::poll.
SingleFinish(h, b) ==
    LET res == take_block(h, b) IN
    IF IsSome(res)
    THEN /\ output' = res
         /\ header' = None
         /\ body' = None
         /\ task' = "done"
    ELSE /\ output' = None
         /\ header' = h
         /\ body' = b
         /\ task' = "polling"

\* The match arm for ResponseResult::Header(resp), up to the end of the loop
\* iteration.
SingleTakeHeader(resp) ==
    LET present == resp.ok /\ IsSome(resp.data)
        accepted == present /\ HeaderHashOk(Unwrap(resp.data), hash)
        header1 == IF accepted THEN resp.data ELSE header
    IN  /\ request_header' =
              IF IsNone(header1) THEN Some(get_header(hash)) ELSE None
        /\ reported' = IF present /\ ~accepted THEN <<resp.peer>> ELSE <<>>
        /\ SingleFinish(header1, body)
        /\ lastResponse' = [kind |-> "header", resp |-> resp]

\* One loop iteration in which FullBlockRequest::poll yields the header
\* result, which is one of `responses`.
SinglePollHeader(responses) ==
    /\ task = "polling"
    /\ IsReady(request_header)
    /\ \E resp \in responses : SingleTakeHeader(resp)
    /\ UNCHANGED <<hash, count, test_bodies, rangeVars, request_body>>

\* The match arm for ResponseResult::Body(resp), up to the end of the loop
\* iteration.
SingleTakeBodyAfterHeader(resp) ==
    LET body1 == IF resp.ok /\ IsSome(header) THEN into_data(resp) ELSE body
    IN  /\ request_body' =
              IF IsNone(body1) THEN Some(get_block_body(hash)) ELSE None
        /\ SingleFinish(header, body1)
        /\ reported' = <<>>
        /\ lastResponse' = [kind |-> "body", resp |-> resp]
SingleTakeBodyNoRetry(resp) ==
    LET body1 == IF resp.ok THEN into_data(resp) ELSE body
    IN  /\ request_body' = None
        /\ SingleFinish(header, body1)
        /\ reported' = <<>>
        /\ lastResponse' = [kind |-> "body", resp |-> resp]
SingleTakeBody(resp) ==
    LET body1 == IF resp.ok THEN into_data(resp) ELSE body
    IN  /\ request_body' =
              IF IsNone(body1) THEN Some(get_block_body(hash)) ELSE None
        /\ SingleFinish(header, body1)
        /\ reported' = <<>>
        /\ lastResponse' = [kind |-> "body", resp |-> resp]

\* One loop iteration in which FullBlockRequest::poll yields the body result
\* (the header future is absent or still pending).
SinglePollBody(responses) ==
    /\ task = "polling"
    /\ ~IsReady(request_header)
    /\ IsReady(request_body)
    /\ \E resp \in responses : SingleTakeBody(resp)
    /\ UNCHANGED <<hash, count, test_bodies, rangeVars, request_header>>

\* FullBlockRequest::poll returns Poll::Pending: the task suspends.
SinglePollPendingHeaderOnly ==
    /\ task = "polling"
    /\ ~IsReady(request_header)
    /\ task' = "suspended"
    /\ reported' = <<>>
    /\ lastResponse' = NoResponse
    /\ UNCHANGED <<hash, count, test_bodies, singleVars, rangeVars, output>>
SinglePollPending ==
    /\ task = "polling"
    /\ ~IsReady(request_header)
    /\ ~IsReady(request_body)
    /\ task' = "suspended"
    /\ reported' = <<>>
    /\ lastResponse' = NoResponse
    /\ UNCHANGED <<hash, count, test_bodies, singleVars, rangeVars, output>>

\* The client completes the in-flight header future.
HeaderResponseArrives ==
    /\ IsPending(request_header)
    /\ request_header' = MarkReady(request_header)
    /\ reported' = <<>>
    /\ lastResponse' = NoResponse
    /\ UNCHANGED <<hash, count, test_bodies, rangeVars, request_body, header, body, task, output>>

\* The client completes the in-flight body future.
BodyResponseArrives ==
    /\ IsPending(request_body)
    /\ request_body' = MarkReady(request_body)
    /\ reported' = <<>>
    /\ lastResponse' = NoResponse
    /\ UNCHANGED <<hash, count, test_bodies, rangeVars, request_header, header, body, task, output>>

SingleNext ==
    \/ Wake
    \/ SinglePollHeader(HeaderResponses)
    \/ SinglePollBody(BodyResponses)
    \/ SinglePollPending
    \/ HeaderResponseArrives
    \/ BodyResponseArrives

SingleSpec == SingleInit /\ [][SingleNext]_vars

\* ------------------------------------------------------ dropping a future
\* Both futures own their sub-requests as plain fields (request.header,
\* request.body, request.headers, request.bodies): dropping the future drops
\* them, and a dropped sub-request is no longer in flight.
DropRequestDetached(req) == req
DropRequest(req) == None

\* The caller drops the future between two polls.
Drop ==
    /\ task \in {"created", "suspended"}
    /\ task' = "dropped"
    /\ request_header' = DropRequest(request_header)
    /\ request_body' = DropRequest(request_body)
    /\ request_headers' = DropRequest(request_headers)
    /\ request_bodies' = DropRequest(request_bodies)
    /\ header' = None
    /\ body' = None
    /\ headers' = None
    /\ bodies' = None
    /\ reported' = <<>>
    /\ lastResponse' = NoResponse
    /\ UNCHANGED <<hash, count, test_bodies, output>>

\* Either future, which its caller may drop.
DropInit == SingleInit \/ RangeInit

\* count = 0 marks the single future, whose steps never enable a range step
\* and conversely, except for the two Pending steps.
DropNext ==
    \/ Wake
    \/ SinglePollHeader(HeaderResponses)
    \/ SinglePollBody(BodyResponses)
    \/ count = 0 /\ SinglePollPending
    \/ HeaderResponseArrives
    \/ BodyResponseArrives
    \/ RangePollHeaders(HeadersResponses(count))
    \/ RangePollBodies(BodiesResponses(count))
    \/ count > 0 /\ RangePollPending
    \/ HeadersResponseArrives
    \/ BodiesResponseArrives
    \/ Drop

DropSpec == DropInit /\ [][DropNext]_vars

\* A client that may fail any number of times but answers every request, and
\* again and again hands out the header with the requested hash and a body.
MatchingHeaderResponses ==
    {r \in HeaderResponses : r.ok /\ IsSome(r.data) /\ HashOf(Unwrap(r.data)) = hash}
PresentBodyResponses == {r \in BodyResponses : r.ok /\ IsSome(r.data)}

SingleFairness ==
    /\ WF_vars(Wake)
    /\ WF_vars(HeaderResponseArrives)
    /\ WF_vars(BodyResponseArrives)
    /\ SF_vars(SinglePollHeader(MatchingHeaderResponses))
    /\ SF_vars(SinglePollBody(PresentBodyResponses))

SingleFairSpec == SingleInit /\ [][SingleNext]_vars /\ SingleFairness

\* ------------------------------------------------ tests::TestFullBlockClient
\* The client of the tests: it holds the chain's headers and one body per
\* block, answers every request at once and correctly, under a random peer id.
\* self.bodies.lock().get(&hash)
StoredBody(h) ==
    LET found == {n \in Numbers : HashOf(ChainHeader(n)) = h} IN
    IF found = {} THEN None ELSE Some(test_bodies[CHOOSE n \in found : TRUE])

\* BlockNumHash::matches_block_or_num
MatchesBlockOrNum(h, block) ==
    IF block.is_hash THEN HashOf(h) = block.value ELSE h.number = block.value

\* The loop of get_headers_with_priority for HeadersDirection::Falling.
RECURSIVE FallingHeaders(_, _)
FallingHeaders(block, limit) ==
    IF limit = 0 THEN <<>>
    ELSE LET found == {h \in ChainHeaders : MatchesBlockOrNum(h, block)} IN
         IF found = {} THEN <<>>
         ELSE LET h == CHOOSE x \in found : TRUE IN
              <<h>> \o FallingHeaders([is_hash |-> TRUE, value |-> h.parent_hash], limit - 1)

test_get_headers(req) ==
    LET start == CHOOSE h \in ChainHeaders : HashOf(h) = req.start IN
    FallingHeaders([is_hash |-> FALSE, value |-> start.number], req.limit)

RECURSIVE test_get_block_bodies(_)
test_get_block_bodies(hashes) ==
    IF hashes = <<>> THEN <<>>
    ELSE StoredBody(Head(hashes)) \o test_get_block_bodies(Tail(hashes))

\* HeadersClient::get_header and BodiesClient::get_block_body: the request for
\* one hash, answered with the first entry of the response, if any.
FirstOf(s) == IF s = <<>> THEN None ELSE Some(Head(s))
test_get_header(req) == FirstOf(test_get_headers([start |-> req.hash, limit |-> 1]))
test_get_block_body(req) == FirstOf(test_get_block_bodies(<<req.hash>>))

\* What the client of the tests answers to the in-flight request, under any
\* peer id.
TestHeadersResponses ==
    {OkResponse(p, test_get_headers(Unwrap(request_headers))) : p \in Peers}
TestBodiesResponses ==
    {OkResponse(p, test_get_block_bodies(Unwrap(request_bodies).hashes)) : p \in Peers}
TestHeaderResponses ==
    {OkResponse(p, test_get_header(Unwrap(request_header))) : p \in Peers}
TestBodyResponses ==
    {OkResponse(p, test_get_block_body(Unwrap(request_body))) : p \in Peers}

RangeTestNext ==
    \/ Wake
    \/ RangePollHeaders(TestHeadersResponses)
    \/ RangePollBodies(TestBodiesResponses)
    \/ RangePollPending
    \/ HeadersResponseArrives
    \/ BodiesResponseArrives

\* Every in-flight request is answered and the task is polled again after it
\* suspended.
RangeTestFairness ==
    /\ WF_vars(Wake)
    /\ WF_vars(RangePollHeaders(TestHeadersResponses))
    /\ WF_vars(RangePollBodies(TestBodiesResponses))
    /\ WF_vars(HeadersResponseArrives)
    /\ WF_vars(BodiesResponseArrives)

RangeTestInit == get_full_block_range /\ test_bodies \in [Numbers -> Bodies]

RangeTestSpec == RangeTestInit /\ [][RangeTestNext]_vars /\ RangeTestFairness

SingleTestNext ==
    \/ Wake
    \/ SinglePollHeader(TestHeaderResponses)
    \/ SinglePollBody(TestBodyResponses)
    \/ SinglePollPending
    \/ HeaderResponseArrives
    \/ BodyResponseArrives

SingleTestFairness ==
    /\ WF_vars(Wake)
    /\ WF_vars(SinglePollHeader(TestHeaderResponses))
    /\ WF_vars(SinglePollBody(TestBodyResponses))
    /\ WF_vars(HeaderResponseArrives)
    /\ WF_vars(BodyResponseArrives)

SingleTestInit == get_full_block /\ test_bodies \in [Numbers -> Bodies]

SingleTestSpec == SingleTestInit /\ [][SingleTestNext]_vars /\ SingleTestFairness

\* ------------------------------------------------------------- properties
\* The block of the chain whose hash is the requested one.
TargetHeader == CHOOSE h \in ChainHeaders : HashOf(h) = hash
TargetBlock == SealedBlock(TargetHeader, test_bodies[TargetHeader.number])
BlockNumbers(blocks) == [i \in 1..Len(blocks) |-> blocks[i].header.number]
TookOk(kind) == lastResponse.kind = kind /\ lastResponse.resp.ok

\* C1: in a single fetch the header slot only ever holds a header whose
\* recomputed hash is the requested hash, and so does the yielded block.
C1_SingleHeaderHashIsTarget ==
    /\ IsSome(header) => HashOf(Unwrap(header)) = hash
    /\ IsSome(output) => HashOf(Unwrap(output).header) = hash

C1_Witness ==
    /\ IsSome(output)
    /\ HashOf(Unwrap(output).header) = hash
    /\ lastResponse.kind = "header"

\* C2: a completed range fetch yields exactly `count` blocks and the first
\* one's header hashes to the requested hash.
C2_RangeLengthAndStart ==
    IsSome(output) =>
        /\ Len(Unwrap(output)) = count
        /\ HashOf(Unwrap(output)[1].header) = hash

C2_Witness ==
    /\ IsSome(output)
    /\ Len(Unwrap(output)) = count
    /\ count > 1

\* C3 as stated: the block numbers of a completed range decrease by exactly
\* one from each block to the next.
C3_NumbersDecreaseByOne ==
    IsSome(output) =>
        \A i \in 1..(Len(Unwrap(output)) - 1) :
            BlockNumbers(Unwrap(output))[i + 1] = BlockNumbers(Unwrap(output))[i] - 1

\* C3 amended: the block numbers of a completed range never increase from
\* one block to the next (the accepted headers are sorted by descending
\* number; gaps and equal numbers are not rejected).
C3_NumbersNonIncreasing ==
    IsSome(output) =>
        \A i \in 1..(Len(Unwrap(output)) - 1) :
            BlockNumbers(Unwrap(output))[i + 1] <= BlockNumbers(Unwrap(output))[i]

C3_Witness ==
    /\ IsSome(output)
    /\ count > 1
    /\ BlockNumbers(Unwrap(output))[2] < BlockNumbers(Unwrap(output))[1] - 1

\* C4: against a client that holds the block of the requested hash, a single
\* fetch resolves, and to exactly that header and that body.
C4_SingleYieldsTargetBlock ==
    /\ [](IsSome(output) => output = Some(TargetBlock))
    /\ <>(output = Some(TargetBlock))

C4_Witness ==
    /\ task = "done"
    /\ output = Some(TargetBlock)

\* C5: a range future created with count 1 has its bodies request for the
\* one requested hash in flight from construction on.
C5_BodiesRequestAtConstruction ==
    (task = "created" /\ count = 1) =>
        /\ IsSome(request_bodies)
        /\ Unwrap(request_bodies).hashes = <<hash>>

\* C6: a range future with count above 1 has no bodies request until a
\* headers response has been accepted.
C6_NoBodiesRequestBeforeHeaders ==
    (count > 1 /\ IsNone(headers) /\ IsNone(output)) => IsNone(request_bodies)

\* C7: a headers response of the wrong length is not stored, its peer is
\* reported once, and the same headers request is in flight again; a
\* suspended range future without headers always has that request in flight.
C7_BadHeadersCountRetried ==
    /\ (TookOk("headers") /\ Len(lastResponse.resp.data) # count) =>
          /\ IsNone(headers)
          /\ IsNone(output)
          /\ reported = <<lastResponse.resp.peer>>
          /\ request_headers = Some(get_headers(hash, count))
    /\ (task = "suspended" /\ IsNone(headers)) =>
          /\ IsSome(request_headers)
          /\ Unwrap(request_headers).start = hash
          /\ Unwrap(request_headers).limit = count
          /\ Unwrap(request_headers).direction = "Falling"

C7_Witness ==
    /\ TookOk("headers")
    /\ Len(lastResponse.resp.data) = count + 1
    /\ reported = <<lastResponse.resp.peer>>
    /\ IsPending(request_headers)

C9_RangeOfOneCompletes ==
    <>(count = 1 => output = Some(<<TargetBlock>>))

\* The blocks of the chain from the requested one downwards.
TargetBlocks ==
    [i \in 1..count |->
        SealedBlock(ChainHeader(TargetHeader.number - (i - 1)),
                    test_bodies[TargetHeader.number - (i - 1)])]

\* C10: against the client of the tests holding at least `count` linked
\* blocks below the requested hash, a range fetch of count above 1 resolves
\* to those blocks in descending order, whichever response comes first.
C10_RangeCompletesInOrder ==
    <>((count > 1 /\ TargetHeader.number >= count - 1) => output = Some(TargetBlocks))

\* C11: when every request is answered and the matching header and a body
\* keep being offered, a single fetch resolves; it has no other way to end:
\* a state in which it can take no step has yielded its block.
C11_SingleEventuallyCompletes ==
    /\ <>(task = "done" /\ IsSome(output))
    /\ [](ENABLED SingleNext \/ (task = "done" /\ IsSome(output)))

C11_Witness ==
    /\ task = "done"
    /\ IsSome(output)
    /\ ~ENABLED SingleNext

\* C12: once a future has been dropped it has no sub-request in flight, and
\* nothing happens on its behalf any more: no request is issued, no peer is
\* reported, no state changes.
C12_DropLeavesNothingBehind ==
    /\ [](task = "dropped" =>
            /\ IsNone(request_header) /\ IsNone(request_body)
            /\ IsNone(request_headers) /\ IsNone(request_bodies)
            /\ reported = <<>>)
    /\ [][task = "dropped" => UNCHANGED vars]_vars

C12_Witness ==
    /\ task = "dropped"
    /\ count > 0
    /\ IsNone(request_headers)
    /\ IsNone(request_bodies)

\* The step just taken took a header response whose header hashes to the
\* requested hash.
TakesMatchingHeader ==
    /\ lastResponse'.kind = "header"
    /\ lastResponse'.resp.ok
    /\ IsSome(lastResponse'.resp.data)
    /\ HashOf(Unwrap(lastResponse'.resp.data)) = hash

\* C13: until a single fetch completes, its hash is the one it was created
\* with, and block_number() is absent until a header has been accepted and
\* from then on is the number of the block with the requested hash, whether
\* or not the body is there.
C13_SingleAccessors ==
    /\ [](task = "created" => (hash \in ChainHashes /\ block_number(header) = None))
    /\ [][/\ hash' = hash
          /\ task' # "done" =>
                block_number(header') =
                    IF IsSome(header) \/ TakesMatchingHeader
                    THEN Some(TargetHeader.number)
                    ELSE None]_vars

C13_Witness ==
    /\ task = "suspended"
    /\ IsSome(header)
    /\ IsNone(body)
    /\ block_number(header) = Some(TargetHeader.number)

\* C14: a single fetch stores every body a body response carries, without
\* looking at the header, reports no peer for any body response, and yields
\* the stored body in its block.
C14_SingleBodyAcceptedUnchecked ==
    [][/\ lastResponse'.kind = "body" => reported' = <<>>
       /\ (/\ lastResponse'.kind = "body"
           /\ lastResponse'.resp.ok
           /\ IsSome(lastResponse'.resp.data))
          => IF task' = "done"
             THEN Unwrap(output').body = Unwrap(lastResponse'.resp.data)
             ELSE body' = lastResponse'.resp.data
       /\ IsSome(body)
          => IF task' = "done"
             THEN Unwrap(output').body = Unwrap(body)
             ELSE body' = body]_vars

C14_Witness ==
    /\ TookOk("body")
    /\ IsSome(lastResponse.resp.data)
    /\ body = lastResponse.resp.data
    /\ IsNone(header)
    /\ reported = <<>>

\* C15: in a single fetch a header response whose header hashes to another
\* hash gets its peer reported, leaves the header slot empty and puts a new
\* header request for the requested hash in flight; the body slot and the
\* body request are not touched.
C15_SingleWrongHeaderRetried ==
    [][(/\ lastResponse'.kind = "header"
        /\ lastResponse'.resp.ok
        /\ IsSome(lastResponse'.resp.data)
        /\ HashOf(Unwrap(lastResponse'.resp.data)) # hash)
       => (/\ reported' = <<lastResponse'.resp.peer>>
           /\ header' = None
           /\ IsPending(request_header')
           /\ Unwrap(request_header').hash = hash
           /\ body' = body
           /\ request_body' = request_body
           /\ task' = "polling")]_vars

C15_Witness ==
    /\ TookOk("header")
    /\ IsSome(lastResponse.resp.data)
    /\ HashOf(Unwrap(lastResponse.resp.data)) # hash
    /\ reported = <<lastResponse.resp.peer>>
    /\ IsNone(header)
    /\ IsSome(body)
    /\ IsPending(request_header)

\* The last step took a response of this kind that is a transport error or
\* carries nothing.
TookNothing(kind) ==
    /\ lastResponse.kind = kind
    /\ (~lastResponse.resp.ok \/ IsNone(lastResponse.resp.data))

\* C16: in a single fetch a failed or empty header response, and a failed or
\* empty body response, report no peer and leave the same request (header
\* by hash, body by hash, for the requested hash) in flight again.
C16_SingleAbsentRetried ==
    /\ TookNothing("header") =>
          /\ reported = <<>>
          /\ IsPending(request_header)
          /\ Unwrap(request_header).hash = hash
          /\ IsNone(header)
    /\ TookNothing("body") =>
          /\ reported = <<>>
          /\ IsPending(request_body)
          /\ Unwrap(request_body).hash = hash
          /\ IsNone(body)

C16_Witness ==
    /\ TookNothing("body")
    /\ lastResponse.resp.ok
    /\ IsPending(request_body)
    /\ Unwrap(request_body).hash = hash
    /\ IsSome(header)

\* C17: in a range fetch a transport failure of the headers request reports
\* no peer and leaves a headers request with the same start, limit and
\* direction in flight; the stored bodies and the bodies request are not
\* touched.
C17_RangeHeadersErrorRetried ==
    [][(lastResponse'.kind = "headers" /\ ~lastResponse'.resp.ok)
       => (/\ reported' = <<>>
           /\ IsNone(headers')
           /\ IsPending(request_headers')
           /\ Unwrap(request_headers').start = hash
           /\ Unwrap(request_headers').limit = count
           /\ Unwrap(request_headers').direction = "Falling"
           /\ bodies' = bodies
           /\ request_bodies' = request_bodies)]_vars

C17_Witness ==
    /\ lastResponse.kind = "headers"
    /\ ~lastResponse.resp.ok
    /\ count > 1
    /\ IsPending(request_headers)
    /\ Unwrap(request_headers).limit = count
    /\ IsSome(bodies)

\* C18: in a range fetch, whenever a bodies response is a transport failure
\* or has the wrong length, a bodies request is in flight again at the end of
\* the loop iteration, also when no headers have been accepted yet.
C18_RangeBodiesAlwaysRetried ==
    (/\ lastResponse.kind = "bodies"
     /\ (~lastResponse.resp.ok \/ Len(lastResponse.resp.data) # count))
    => IsSome(request_bodies)

\* The step just taken accepted a headers response.
AcceptsHeaders ==
    /\ lastResponse'.kind = "headers"
    /\ IsNone(headers)
    /\ (IsSome(headers') \/ task' = "done")

\* C19: when a range fetch accepts a headers response it issues the bodies
\* request for the hashes of the sorted headers exactly if no bodies request
\* is in flight and no bodies are stored; otherwise the bodies request is left
\* as it is.
C19_BodiesRequestIssuedOnlyIfNotStarted ==
    [][AcceptsHeaders =>
          IF IsNone(request_bodies) /\ IsNone(bodies)
          THEN /\ IsSome(headers')
               /\ IsPending(request_bodies')
               /\ Unwrap(request_bodies').hashes = HashesOf(Unwrap(headers'))
          ELSE request_bodies' = request_bodies]_vars

\* C20: a suspended range fetch has a sub-request in flight, and each empty
\* result slot is covered: the headers by the headers request, the bodies by
\* the bodies request or by the headers request that will start it.
C20_SuspendedRangeCanBeWoken ==
    task = "suspended" =>
        /\ IsSome(request_headers) \/ IsSome(request_bodies)
        /\ IsNone(headers) => IsSome(request_headers)
        /\ IsNone(bodies) => (IsSome(request_bodies) \/ IsSome(request_headers))

\* C21: whenever a single fetch is suspended (or not yet polled), each half
\* has either its one request in flight or its result stored, never both and
\* never neither.
C21_SingleSlotOrRequest ==
    task \in {"created", "suspended"} =>
        /\ IsSome(request_header) # IsSome(header)
        /\ IsSome(request_body) # IsSome(body)

C21_Witness ==
    /\ task = "suspended"
    /\ IsSome(header)
    /\ IsNone(request_header)
    /\ IsNone(body)
    /\ IsPending(request_body)
    /\ lastResponse.kind = "none"

\* The step just taken took a body response that carries a body.
TakesPresentBody ==
    /\ lastResponse'.kind = "body"
    /\ lastResponse'.resp.ok
    /\ IsSome(lastResponse'.resp.data)

\* C22: a single fetch never suspends while the response of one of its
\* requests is ready; taking the header response leaves a ready body response
\* ready for the next loop iteration of the same poll, and the response that
\* fills the second slot (a header hashing to the requested hash, a present
\* body) completes the fetch in that iteration.
C22_SingleDrainsReadyResponses ==
    [][/\ (task = "polling" /\ (IsReady(request_header) \/ IsReady(request_body)))
          => task' # "suspended"
       /\ (lastResponse'.kind = "header" /\ IsReady(request_body))
          => (IsReady(request_body') /\ task' # "suspended")
       /\ (TakesMatchingHeader /\ IsNone(body))
          => (task' = "polling" /\ header' = lastResponse'.resp.data)
       /\ (TakesMatchingHeader /\ IsSome(body)) => task' = "done"
       /\ (TakesPresentBody /\ IsSome(header)) => task' = "done"]_vars

\* Both responses are ready in the same poll: the header has just been taken
\* and stored, and the ready body response is still to be taken.
C22_Witness ==
    /\ task = "polling"
    /\ lastResponse.kind = "header"
    /\ IsSome(header)
    /\ IsReady(request_body)

\* The headers and the bodies of a sequence of blocks.
HeadersOfBlocks(blocks) == [i \in 1..Len(blocks) |-> blocks[i].header]
BodiesOfBlocks(blocks) == [i \in 1..Len(blocks) |-> blocks[i].body]

\* C23: a stored result (header or body of a single fetch, headers or bodies
\* of a range fetch) stays as it is in every step of a future that is not
\* dropped, until the step that completes the fetch puts it into the yielded
\* value; and no request for a stored result is issued.
C23_StoredResultsKept ==
    [][task' # "dropped" =>
          /\ IsSome(header) =>
                /\ IF task' = "done" THEN Unwrap(output').header = Unwrap(header)
                   ELSE header' = header
                /\ IsNone(request_header')
          /\ IsSome(body) =>
                /\ IF task' = "done" THEN Unwrap(output').body = Unwrap(body)
                   ELSE body' = body
                /\ IsNone(request_body')
          /\ IsSome(headers) =>
                /\ IF task' = "done" THEN HeadersOfBlocks(Unwrap(output')) = Unwrap(headers)
                   ELSE headers' = headers
                /\ IsNone(request_headers')
          /\ IsSome(bodies) =>
                /\ IF task' = "done" THEN BodiesOfBlocks(Unwrap(output')) = Unwrap(bodies)
                   ELSE bodies' = bodies
                /\ IsNone(request_bodies')]_vars

\* The headers of the chain from the requested one downwards, and whether a
\* sequence is some reordering of another.
TargetHeaders == [i \in 1..count |-> ChainHeader(TargetHeader.number - (i - 1))]
IsPermutationOf(s, t) ==
    /\ Len(s) = Len(t)
    /\ \A i \in 1..Len(t) :
          Cardinality({j \in 1..Len(s) : s[j] = t[i]}) =
              Cardinality({j \in 1..Len(t) : t[j] = t[i]})

\* C24: a headers response that holds the `count` headers of the chain from
\* the requested hash downwards, in any order, is accepted without a report,
\* and what is stored (or yielded, if the bodies were already there) is those
\* headers in descending number order, whatever the order of the response.
C24_HeadersOrderIrrelevant ==
    [][(/\ lastResponse'.kind = "headers"
        /\ lastResponse'.resp.ok
        /\ TargetHeader.number >= count - 1
        /\ IsPermutationOf(lastResponse'.resp.data, TargetHeaders))
       => (/\ reported' = <<>>
           /\ IsNone(request_headers')
           /\ IF task' = "done"
              THEN HeadersOfBlocks(Unwrap(output')) = TargetHeaders
              ELSE headers' = Some(TargetHeaders))]_vars

C24_Witness ==
    /\ TookOk("headers")
    /\ count > 1
    /\ TargetHeader.number >= count - 1
    /\ Len(lastResponse.resp.data) = count
    /\ lastResponse.resp.data[1].number < lastResponse.resp.data[2].number
    /\ headers = Some(TargetHeaders)
    /\ reported = <<>>

\* No entry of `hs` with the highest number hashes to `h`: whichever entry the
\* descending sort puts first, its hash is not `h`.
NoTopEntryHashesTo(hs, h) ==
    \A i \in 1..Len(hs) :
        (\A j \in 1..Len(hs) : hs[j].number <= hs[i].number) => HashOf(hs[i]) # h

\* C25: a headers response of the requested length whose highest-numbered
\* entry does not hash to the requested hash is not stored; and a response of
\* the requested length that is not stored gets its peer reported, starts no
\* bodies request, and leaves a headers request with the same parameters in
\* flight.
C25_WrongStartHashRetried ==
    [][(/\ lastResponse'.kind = "headers"
        /\ lastResponse'.resp.ok
        /\ Len(lastResponse'.resp.data) = count)
       => (/\ NoTopEntryHashesTo(lastResponse'.resp.data, hash)
              => (IsNone(headers') /\ task' # "done")
           /\ (IsNone(headers') /\ task' # "done")
              => (/\ reported' = <<lastResponse'.resp.peer>>
                  /\ request_bodies' = request_bodies
                  /\ bodies' = bodies
                  /\ request_headers' = Some(get_headers(hash, count))))]_vars

\* The response's first entry hashes to the requested hash, but another
\* entry has a higher number and is first after the sort.
C25_Witness ==
    /\ TookOk("headers")
    /\ count > 1
    /\ Len(lastResponse.resp.data) = count
    /\ HashOf(lastResponse.resp.data[1]) = hash
    /\ NoTopEntryHashesTo(lastResponse.resp.data, hash)
    /\ reported = <<lastResponse.resp.peer>>
    /\ IsNone(headers)
    /\ IsPending(request_headers)

\* The step just taken completed the fetch.
Completes == task # "done" /\ task' = "done"

\* C26: the value a range fetch yields has `count` blocks, and its block at
\* each position is the stored header and the stored body of that position:
\* when the bodies response completes the fetch, the stored headers with the
\* bodies of the response; when the headers response completes it, the
\* headers just sorted (in non-increasing number order) with the stored bodies.
C26_RangePairsByPosition ==
    [][(Completes /\ count > 0) =>
          /\ Len(Unwrap(output')) = count
          /\ lastResponse'.kind = "bodies" =>
                \A i \in 1..count :
                    Unwrap(output')[i] =
                        [header |-> Unwrap(headers)[i], body |-> lastResponse'.resp.data[i]]
          /\ lastResponse'.kind = "headers" =>
                /\ IsPermutationOf(HeadersOfBlocks(Unwrap(output')), lastResponse'.resp.data)
                /\ IsDescending(HeadersOfBlocks(Unwrap(output')))
                /\ \A i \in 1..count : Unwrap(output')[i].body = Unwrap(bodies)[i]]_vars

C26_Witness ==
    /\ task = "done"
    /\ count > 1
    /\ lastResponse.kind = "bodies"
    /\ Unwrap(output)[1].body = lastResponse.resp.data[1]
    /\ Unwrap(output)[2].body = lastResponse.resp.data[2]
    /\ Unwrap(output)[1].body # Unwrap(output)[2].body
    /\ Unwrap(output)[1].header # Unwrap(output)[2].header

\* The step just taken stored the bodies of a bodies response (or yielded
\* them at once).
AcceptsBodies ==
    /\ lastResponse'.kind = "bodies"
    /\ lastResponse'.resp.ok
    /\ (IsSome(bodies') \/ task' = "done")

\* C27: bodies are accepted only from a bodies request made for the hash list
\* of the accepted headers: the hashes of the stored headers, in stored
\* order, if headers are stored; and if none are stored yet, a list that the
\* headers accepted later can have, that is `count` hashes starting with the
\* requested hash.
C27_BodiesFromRequestForAcceptedHeaders ==
    [][AcceptsBodies =>
          IF IsSome(headers)
          THEN Unwrap(request_bodies).hashes = HashesOf(Unwrap(headers))
          ELSE /\ Len(Unwrap(request_bodies).hashes) = count
               /\ Unwrap(request_bodies).hashes[1] = hash]_vars

\* C28: range_block_hashes() of a range fetch is absent until a headers
\* response is accepted; when it is present it has `count` entries, the first
\* one is the requested hash, and every bodies request in flight or issued
\* while it is present was made for exactly that list.
C28_RangeBlockHashes ==
    /\ [](task = "created" => IsNone(range_block_hashes(headers)))
    /\ [](IsSome(range_block_hashes(headers)) =>
            /\ Len(Unwrap(range_block_hashes(headers))) = count
            /\ Unwrap(range_block_hashes(headers))[1] = hash
            /\ IsSome(request_bodies) =>
                  Unwrap(request_bodies).hashes = Unwrap(range_block_hashes(headers)))
    /\ [][/\ (IsNone(range_block_hashes(headers)) /\ ~AcceptsHeaders)
             => IsNone(range_block_hashes(headers'))
          /\ (IsSome(range_block_hashes(headers)) /\ IsSome(request_bodies'))
             => Unwrap(request_bodies').hashes = Unwrap(range_block_hashes(headers))]_vars

C28_Witness ==
    /\ IsSome(range_block_hashes(headers))
    /\ count > 1
    /\ lastResponse.kind = "bodies"
    /\ IsPending(request_bodies)
    /\ Unwrap(request_bodies).hashes = Unwrap(range_block_hashes(headers))
    /\ Unwrap(range_block_hashes(headers))[1] = hash
    /\ Len(Unwrap(range_block_hashes(headers))) = count

\* C29: a loop iteration of a single fetch that took a response completes the
\* fetch exactly if afterwards both the header and the body are there (stored
\* before, or just accepted); nothing is yielded otherwise; completing
\* empties both slots, leaves no request behind, and is the last step.
C29_SingleCompletesIffBothSlots ==
    [][/\ lastResponse'.kind \in {"header", "body"} =>
             (task' = "done" <=>
                 /\ IsSome(header) \/ TakesMatchingHeader
                 /\ IsSome(body) \/ TakesPresentBody)
       /\ task' = "done" =>
             /\ IsSome(output')
             /\ header' = None /\ body' = None
             /\ IsNone(request_header') /\ IsNone(request_body')
       /\ task' # "done" => output' = None
       /\ task # "done"]_vars

C29_Witness ==
    /\ task = "done"
    /\ lastResponse.kind = "body"
    /\ header = None
    /\ body = None
    /\ IsSome(output)
    /\ Unwrap(output).body = Unwrap(lastResponse.resp.data)

\* C30: what a single fetch does with a response does not depend on whether
\* the other half has been answered: a header response is accepted or
\* reported on its own hash alone and leaves the body half alone, a body
\* response is accepted on its presence alone, reports nobody and leaves the
\* header half alone; and the yielded block is the accepted header with the
\* accepted body, whichever of the two came last.
C30_SingleOrderIndependent ==
    [][/\ lastResponse'.kind = "header" =>
             /\ reported' =
                   IF /\ lastResponse'.resp.ok
                      /\ IsSome(lastResponse'.resp.data)
                      /\ HashOf(Unwrap(lastResponse'.resp.data)) # hash
                   THEN <<lastResponse'.resp.peer>>
                   ELSE <<>>
             /\ request_body' = request_body
             /\ task' # "done" => body' = body
             /\ TakesMatchingHeader =>
                   IF IsSome(body)
                   THEN output' = Some(SealedBlock(Unwrap(lastResponse'.resp.data), Unwrap(body)))
                   ELSE header' = lastResponse'.resp.data
       /\ lastResponse'.kind = "body" =>
             /\ reported' = <<>>
             /\ request_header' = request_header
             /\ task' # "done" => header' = header
             /\ TakesPresentBody =>
                   IF IsSome(header)
                   THEN output' = Some(SealedBlock(Unwrap(header), Unwrap(lastResponse'.resp.data)))
                   ELSE body' = lastResponse'.resp.data]_vars

\* The body was accepted first, the header completes the fetch.
C30_Witness ==
    /\ task = "done"
    /\ lastResponse.kind = "header"
    /\ reported = <<>>
    /\ Unwrap(output).header = Unwrap(lastResponse.resp.data)
    /\ Unwrap(output).header = TargetHeader
    /\ Unwrap(output).body \in Bodies

\* C31: in either future a step reports at most one peer, and only a step
\* that took a response which was received (not a transport error), and then
\* the peer that response carries; steps that take no response (wake-up,
\* suspension, arrival, drop) and transport errors report nobody.
C31_ReportOnlyReceivedResponse ==
    /\ Len(reported) <= 1
    /\ reported # <<>> =>
          /\ lastResponse.kind \in {"header", "headers", "bodies"}
          /\ lastResponse.resp.ok
          /\ lastResponse.resp.peer \in Peers
          /\ reported = <<lastResponse.resp.peer>>
    /\ (lastResponse.kind = "none" \/ ~lastResponse.resp.ok) => reported = <<>>

\* A bodies response that was received, but with the wrong length, has just
\* been taken, and the peer it carries is the one reported.
C31_Witness ==
    /\ lastResponse.kind = "bodies"
    /\ lastResponse.resp.ok
    /\ IsNone(headers)
    /\ reported = <<lastResponse.resp.peer>>
    /\ lastResponse.resp.peer = MaxPeer

\* C32: a bodies response that carries exactly one body for each hash of the
\* bodies request it answers gets nobody reported, in every range fetch and
\* whichever of the headers and bodies responses is taken first.
C32_CorrectBodiesNeverReported ==
    [][(/\ lastResponse'.kind = "bodies"
        /\ lastResponse'.resp.ok
        /\ Len(lastResponse'.resp.data) = Len(Unwrap(request_bodies).hashes))
       => reported' = <<>>]_vars

====
